---- MODULE Spec2Model ----
(***************************************************************************)
(* Scan-status waiters of camayoc:                                         *)
(*   wait_until_state  (camayoc/tests/qcs/api/v1/utils.py)                 *)
(*   wait_for_scan     (camayoc/tests/qcs/cli/test_scans.py)               *)
(* A wait call polls a status source, sleeps 5 seconds between polls and   *)
(* ends by returning or by raising.  Every read of the status source is    *)
(* one step of the model, so that the two reads of the loop condition of   *)
(* wait_until_state may see different values.                              *)
(***************************************************************************)
EXTENDS Integers, Sequences, FiniteSets, TLC

(* ---------------- bounds of the model ---------------- *)
MaxSeq == 4
MaxNegTimeout == 5
MaxTimeout == 20
MaxCalls == 2
MaxErrAt == 4
MaxSources == 3
MaxPairSeq == 2
MaxPairTimeout == 6

(* ---------------- values ---------------- *)
\* the status vocabulary; "" stands for a falsy status (None or empty)
Statuses == {"", "pending", "running", "completed", "failed"}
Targets == {"completed", "failed"}
Fns == {"wait_until_state", "wait_for_scan"}
Timeouts == (-MaxNegTimeout) .. MaxTimeout
UNBOUND == "<unbound>"

RECURSIVE SeqsUpTo(_)
SeqsUpTo(n) ==
    IF n = 0 THEN {<<>>}
    ELSE LET shorter == SeqsUpTo(n - 1)
         IN shorter \cup {Append(s, v) : s \in {q \in shorter : Len(q) = n - 1}, v \in Statuses}

StatusSeqs == SeqsUpTo(MaxSeq) \ {<<>>}

VARIABLES
    fn,         \* which waiter is running
    state,      \* requested status: `state` of wait_until_state, `status` of wait_for_scan
    timeout,    \* the local `timeout`, decremented by the loop
    result,     \* status of the most recent read (result['status'] / scan.status())
    pc,         \* position in the running call
    outcome,    \* how the call ended: "none" while running
    diag,       \* observed status placed in the raised message
    statusSeq,  \* the statuses the job goes through, one per read; the last one stays
    idx,        \* number of reads of the status source so far
    idx0,       \* idx when the running call started
    t0,         \* the timeout argument of the running call
    sleeps,     \* number of time.sleep calls of the running call
    elapsed,    \* total time slept by the running call
    lastKind,   \* which statement made the most recent read
    calls,      \* number of wait calls started
    prev,       \* the previous call: its state and outcome
    errAt,      \* ordinal of the read at which the status source raises (0: never)
    cfg,        \* what config.get_config() finds
    op,         \* the helper being run: first_network_source or Client
    hpc,        \* position in the helper
    hout,       \* how the helper ended: "none" while running
    i,          \* position of the `for s in ...` loop of first_network_source
    src,        \* the local `src` of first_network_source
    url,        \* the `url` argument of Client
    selfUrl,    \* `self.url` of Client
    peer        \* the locals of a second wait call, running concurrently for another job

vars == <<fn, state, timeout, result, pc, outcome, diag, statusSeq, idx, idx0, t0,
          sleeps, elapsed, lastKind, calls, prev, errAt,
          cfg, op, hpc, hout, i, src, url, selfUrl, peer>>

waiterVars == <<fn, state, timeout, result, pc, outcome, diag, statusSeq, idx, idx0, t0,
                sleeps, elapsed, lastKind, calls, prev, errAt, peer>>
helperVars == <<cfg, op, hpc, hout, i, src, url, selfUrl>>

(* ---------------- the status source ---------------- *)
\* the status the next read returns
NextStatus == statusSeq[IF idx + 1 <= Len(statusSeq) THEN idx + 1 ELSE Len(statusSeq)]

\* the status source raises (connection error, malformed response) on the next read
SourceRaises == errAt = idx + 1

\* one read of the status source by the statement `kind`
Read(kind) ==
    /\ ~SourceRaises
    /\ result' = NextStatus
    /\ idx' = idx + 1
    /\ lastKind' = kind

NoRead == UNCHANGED <<result, idx, lastKind>>

(* ---------------- pieces of the code ---------------- *)
PollInterval == 5

Falsy(v) == v = ""

\* the budget counted in polls instead of seconds
DecrementByOne(t) == t - 1

Decrement(t) == t - PollInterval

\* an off-by-one guard, `timeout >= 0`
BudgetLeftInclusive(t) == t >= 0

\* `timeout > 0`, the guard of both loops
BudgetLeft(t) == t > 0

\* an off-by-one test, `timeout < 0`
TimedOutStrict(t) == t < 0

\* `if timeout <= 0` of wait_until_state
TimedOut(t) == t <= 0

\* `state != 'failed' and scan.status() == 'failed'`
WusFailedCheck(st, v) == st # "failed" /\ v = "failed"

\* the failed test with `==` for `!=`
WfsFailedCheckInverted(st, v) == st = "failed" /\ v = "failed"

\* the failed test without its `status != 'failed'` conjunct
WfsFailedCheckAnyTarget(st, v) == v = "failed"

\* `status != 'failed' and result['status'] == 'failed'`
WfsFailedCheck(st, v) == st # "failed" /\ v = "failed"

\* the status test against the default status instead of the argument
WfsReachedDefault(st, v) == v = "completed"

\* `result['status'] == status`
WfsReached(st, v) == v = st

\* the comparison against the default state instead of the argument
WusNotReachedDefault(st, v) == ~(v = "completed")

\* `not scan.status() == state`
WusNotReached(st, v) == ~(v = st)

\* the message of wait_until_state's FailedScanException has four replacement
\* fields and its format() call two arguments: str.format raises IndexError
FailedMessageFields == 4
FailedMessageArgs == 2
WusFailedRaise == IF FailedMessageArgs >= FailedMessageFields
                  THEN "FailedScanException" ELSE "IndexError"

Entry(f) == IF f = "wait_until_state" THEN "cond1" ELSE "loop"

Finish(o, d) ==
    /\ pc' = "done"
    /\ outcome' = o
    /\ diag' = d

Goto(p) ==
    /\ pc' = p
    /\ UNCHANGED <<outcome, diag>>

Frame == UNCHANGED <<fn, state, statusSeq, idx0, t0, calls, prev, errAt, helperVars, peer>>
NoSleep == UNCHANGED <<timeout, sleeps, elapsed>>

\* the `and timeout > 0` that follows a true status test in the loop condition
WusEnterOrLeave ==
    IF BudgetLeft(timeout) THEN Goto("body") ELSE Finish("return", "")

(* ---------------- wait_until_state ---------------- *)
\* `not scan.status()`
WusCond1 ==
    /\ fn = "wait_until_state" /\ pc = "cond1"
    /\ Read("cond1")
    /\ IF Falsy(NextStatus) THEN WusEnterOrLeave ELSE Goto("cond2")
    /\ NoSleep /\ Frame

\* `not scan.status() == state`
WusCond2 ==
    /\ fn = "wait_until_state" /\ pc = "cond2"
    /\ Read("cond2")
    /\ IF WusNotReached(state, NextStatus) THEN WusEnterOrLeave ELSE Finish("return", "")
    /\ NoSleep /\ Frame

\* time.sleep(5); timeout -= 5; if timeout <= 0
WusSleep ==
    /\ fn = "wait_until_state" /\ pc = "body"
    /\ timeout' = Decrement(timeout)
    /\ sleeps' = sleeps + 1
    /\ elapsed' = elapsed + PollInterval
    /\ Goto(IF TimedOut(Decrement(timeout)) THEN "raise_timeout" ELSE "failchk")
    /\ NoRead /\ Frame

\* raise WaitTimeError(... scan.status() ...): the message reads the status
\* once more (scan.read() and scan.results() fetch other records)
WusRaiseTimeout ==
    /\ fn = "wait_until_state" /\ pc = "raise_timeout"
    /\ Read("message")
    /\ Finish("WaitTimeError", NextStatus)
    /\ NoSleep /\ Frame

\* if state != 'failed' and scan.status() == 'failed': raise FailedScanException
WusFailedTest ==
    /\ fn = "wait_until_state" /\ pc = "failchk"
    /\ IF state # "failed"
       THEN /\ Read("failchk")
            /\ IF WusFailedCheck(state, NextStatus)
               THEN Finish(WusFailedRaise, "")
               ELSE Goto("cond1")
       ELSE /\ NoRead
            /\ Goto("cond1")
    /\ NoSleep /\ Frame

(* ---------------- wait_for_scan ---------------- *)
\* result = scan_job(...); the failed test; the status test
WfsPoll ==
    /\ fn = "wait_for_scan" /\ pc = "loop"
    /\ BudgetLeft(timeout)
    /\ Read("loop")
    /\ IF WfsFailedCheck(state, NextStatus) THEN Finish("FailedScanException", NextStatus)
       ELSE IF WfsReached(state, NextStatus) THEN Finish("return", "")
       ELSE Goto("sleep")
    /\ NoSleep /\ Frame

\* time.sleep(5); timeout -= 5
WfsSleep ==
    /\ fn = "wait_for_scan" /\ pc = "sleep"
    /\ timeout' = Decrement(timeout)
    /\ sleeps' = sleeps + 1
    /\ elapsed' = elapsed + PollInterval
    /\ Goto("loop")
    /\ NoRead /\ Frame

\* raise WaitTimeError(... pformat(result)): `result` is unbound when the loop never ran
WfsRaiseTimeout ==
    /\ fn = "wait_for_scan" /\ pc = "loop"
    /\ ~BudgetLeft(timeout)
    /\ IF result = UNBOUND THEN Finish("UnboundLocalError", "")
       ELSE Finish("WaitTimeError", result)
    /\ NoRead /\ NoSleep /\ Frame

(* ---------------- callers ---------------- *)
\* a test calls the waiter again on the same job after it returned, with
\* the same timeout and any status (test_scans.py, 262-266)
CallAgain ==
    /\ pc = "done" /\ outcome = "return"
    /\ calls < MaxCalls
    /\ \E s \in Targets : state' = s
    /\ timeout' = t0
    /\ t0' = t0
    /\ prev' = [state |-> state, outcome |-> outcome]
    /\ calls' = calls + 1
    /\ pc' = Entry(fn)
    /\ outcome' = "none"
    /\ diag' = ""
    /\ result' = UNBOUND
    /\ idx0' = idx
    /\ sleeps' = 0
    /\ elapsed' = 0
    /\ lastKind' = "none"
    /\ UNCHANGED <<fn, statusSeq, idx, errAt, helperVars, peer>>

\* a handler that turns an error of the status source into a timeout
CaughtAsTimeout == {"SourceError"}

\* the errors the waiters catch: neither has a try statement
Caught == {}

\* the statement the call is at reads the status source
AtRead ==
    \/ fn = "wait_until_state" /\ pc \in {"cond1", "cond2", "raise_timeout"}
    \/ fn = "wait_until_state" /\ pc = "failchk" /\ state # "failed"
    \/ fn = "wait_for_scan" /\ pc = "loop" /\ BudgetLeft(timeout)

\* scan.status() / scan_job raises: the error leaves the waiter
ReadRaises ==
    /\ AtRead
    /\ SourceRaises
    /\ idx' = idx + 1
    /\ lastKind' = "raised"
    /\ Finish(IF "SourceError" \in Caught THEN "WaitTimeError" ELSE "SourceError", "")
    /\ UNCHANGED result
    /\ NoSleep /\ Frame

(* ---------------- a second, concurrent wait call ---------------- *)
\* the locals of a wait call at its first statement
Start(f, st, t, sq) ==
    [fn |-> f, state |-> st, t0 |-> t, timeout |-> t, result |-> UNBOUND,
     pc |-> Entry(f), outcome |-> "none", diag |-> "", seq |-> sq, idx |-> 0, sleeps |-> 0]

NoPeer == [Start("none", "", 0, <<>>) EXCEPT !.pc = "off"]

\* one statement of a wait call, as a function of its locals
StepOf(w) ==
    LET v == w.seq[IF w.idx + 1 <= Len(w.seq) THEN w.idx + 1 ELSE Len(w.seq)]
        read == [w EXCEPT !.result = v, !.idx = @ + 1]
        slept == [w EXCEPT !.timeout = Decrement(@), !.sleeps = @ + 1]
        fin(x, o, dg) == [x EXCEPT !.pc = "done", !.outcome = o, !.diag = dg]
        go(x, p) == [x EXCEPT !.pc = p]
        enter(x) == IF BudgetLeft(x.timeout) THEN go(x, "body") ELSE fin(x, "return", "")
    IN CASE w.pc = "cond1" ->
                IF Falsy(v) THEN enter(read) ELSE go(read, "cond2")
         [] w.pc = "cond2" ->
                IF WusNotReached(w.state, v) THEN enter(read) ELSE fin(read, "return", "")
         [] w.pc = "body" ->
                go(slept, IF TimedOut(slept.timeout) THEN "raise_timeout" ELSE "failchk")
         [] w.pc = "raise_timeout" ->
                fin(read, "WaitTimeError", v)
         [] w.pc = "failchk" ->
                IF w.state # "failed"
                THEN IF WusFailedCheck(w.state, v) THEN fin(read, WusFailedRaise, "")
                     ELSE go(read, "cond1")
                ELSE go(w, "cond1")
         [] w.pc = "loop" ->
                IF BudgetLeft(w.timeout)
                THEN IF WfsFailedCheck(w.state, v) THEN fin(read, "FailedScanException", v)
                     ELSE IF WfsReached(w.state, v) THEN fin(read, "return", "")
                     ELSE go(read, "sleep")
                ELSE IF w.result = UNBOUND THEN fin(w, "UnboundLocalError", "")
                     ELSE fin(w, "WaitTimeError", w.result)
         [] w.pc = "sleep" ->
                go(slept, "loop")
         [] OTHER -> w

\* `timeout` as a module-level variable that both calls decrement
SharedBudget(mine, others) == others

\* `timeout` is a parameter of each call: a step of the other call leaves it alone
OwnBudget(mine, others) == mine

\* a statement of the second call
PeerStep ==
    /\ peer.pc \notin {"done", "off"}
    /\ peer' = StepOf(peer)
    /\ timeout' = OwnBudget(timeout, StepOf(peer).timeout)
    /\ UNCHANGED <<fn, state, result, pc, outcome, diag, statusSeq, idx, idx0, t0,
                   sleeps, elapsed, lastKind, calls, prev, errAt, helperVars>>

NoCall == [state |-> "", outcome |-> "none"]

InitWaiter ==
    /\ fn \in Fns
    /\ state \in Targets
    /\ t0 \in Timeouts
    /\ timeout = t0
    /\ statusSeq \in StatusSeqs
    /\ result = UNBOUND
    /\ pc = Entry(fn)
    /\ outcome = "none"
    /\ diag = ""
    /\ idx = 0
    /\ idx0 = 0
    /\ sleeps = 0
    /\ elapsed = 0
    /\ lastKind = "none"
    /\ calls = 1
    /\ prev = NoCall

\* no helper is running
NoCfg == [file |-> FALSE, qcs |-> FALSE, hasSources |-> FALSE, sources |-> <<>>,
          hasHostname |-> FALSE, hostname |-> <<>>]
NoSrc == [bound |-> FALSE, val |-> <<>>]

HelperIdle ==
    /\ cfg = NoCfg
    /\ op = "none"
    /\ hpc = "idle"
    /\ hout = "none"
    /\ i = 0
    /\ src = NoSrc
    /\ url = <<>>
    /\ selfUrl = <<>>

Init ==
    /\ InitWaiter
    /\ errAt = 0
    /\ HelperIdle
    /\ peer = NoPeer

Next ==
    \/ WusCond1
    \/ WusCond2
    \/ WusSleep
    \/ WusRaiseTimeout
    \/ WusFailedTest
    \/ WfsPoll
    \/ WfsSleep
    \/ WfsRaiseTimeout
    \/ CallAgain

Spec == Init /\ [][Next]_vars

\* the waiters against a status source that raises on one of its reads
InitErr ==
    /\ InitWaiter
    /\ errAt \in 1 .. MaxErrAt
    /\ HelperIdle
    /\ peer = NoPeer

NextErr ==
    \/ Next
    \/ ReadRaises

SpecErr == InitErr /\ [][NextErr]_vars

\* two wait calls for two jobs, their statements interleaved in any order
PairStatuses == Statuses \ {"pending"}
PairTimeouts == PollInterval .. MaxPairTimeout
PairSeqs == {sq \in SeqsUpTo(MaxPairSeq) \ {<<>>} : \A k \in 1 .. Len(sq) : sq[k] \in PairStatuses}

InitPair ==
    /\ InitWaiter
    /\ t0 \in PairTimeouts
    /\ statusSeq \in PairSeqs
    /\ errAt = 0
    /\ HelperIdle
    /\ peer \in {Start(f, st, t, sq) : f \in Fns, st \in Targets, t \in PairTimeouts, sq \in PairSeqs}

NextPair ==
    \/ WusCond1
    \/ WusCond2
    \/ WusSleep
    \/ WusRaiseTimeout
    \/ WusFailedTest
    \/ WfsPoll
    \/ WfsSleep
    \/ WfsRaiseTimeout
    \/ PeerStep

SpecPair == InitPair /\ [][NextPair]_vars

TypeOK ==
    /\ fn \in Fns
    /\ state \in Targets
    /\ timeout \in Int
    /\ result \in Statuses \cup {UNBOUND}
    /\ pc \in {"cond1", "cond2", "body", "raise_timeout", "failchk", "loop", "sleep", "done"}
    /\ outcome \in {"none", "return", "WaitTimeError", "FailedScanException",
                    "IndexError", "UnboundLocalError", "SourceError"}
    /\ (outcome = "none") = (pc # "done")

(* ======================================================================= *)
(* first_network_source (camayoc/tests/qcs/api/v1/utils.py)                *)
(* ======================================================================= *)
\* a source of the config file is its `type`; NoType is a source without the key
NoType == "<notype>"
SourceTypes == {"network", "vcenter", "satellite", NoType}

RECURSIVE SourceLists(_)
SourceLists(n) ==
    IF n = 0 THEN {<<>>}
    ELSE LET shorter == SourceLists(n - 1)
         IN shorter \cup {Append(l, t) : l \in {q \in shorter : Len(q) = n - 1}, t \in SourceTypes}

SourceCfg(file, qcs, has, srcs) ==
    [file |-> file, qcs |-> qcs, hasSources |-> has, sources |-> srcs,
     hasHostname |-> FALSE, hostname |-> <<>>]

SourceConfigs ==
    {SourceCfg(FALSE, FALSE, FALSE, <<>>),
     SourceCfg(TRUE, FALSE, FALSE, <<>>),
     SourceCfg(TRUE, TRUE, FALSE, <<>>)}
    \cup {SourceCfg(TRUE, TRUE, TRUE, l) : l \in SourceLists(MaxSources)}

\* the k-th source of the config file, and the default of the except clause
ConfigSource(k) == [name |-> "config", at |-> k, type |-> cfg.sources[k]]
DefaultSource == [name |-> "localhost", at |-> 0, type |-> NoType]

\* `s['type'] == 'network'`
IsNetwork(t) == t = "network"

\* config.get_config()['qcs']['sources'] raises ConfigFileNotFoundError or KeyError
GetSourcesRaises == ~cfg.file \/ ~cfg.qcs \/ ~cfg.hasSources

WaiterIdle == UNCHANGED waiterVars

\* config.get_config()['qcs']['sources'], and the except clause
FnsGetSources ==
    /\ op = "first_network_source" /\ hpc = "get"
    /\ IF GetSourcesRaises
       THEN /\ src' = [bound |-> TRUE, val |-> <<DefaultSource>>]
            /\ hpc' = "return"
            /\ i' = i
       ELSE /\ i' = 1
            /\ hpc' = "loop"
            /\ src' = src
    /\ UNCHANGED <<cfg, op, hout, url, selfUrl>>
    /\ WaiterIdle

\* one turn of `for s in ...: if s['type'] == 'network': src = [s]; break`
FnsLoop ==
    /\ op = "first_network_source" /\ hpc = "loop"
    /\ IF i > Len(cfg.sources)
       THEN /\ hpc' = "return"
            /\ UNCHANGED <<i, src>>
       ELSE IF cfg.sources[i] = NoType
       THEN /\ src' = [bound |-> TRUE, val |-> <<DefaultSource>>]
            /\ hpc' = "return"
            /\ i' = i
       ELSE IF IsNetwork(cfg.sources[i])
       THEN /\ src' = [bound |-> TRUE, val |-> <<ConfigSource(i)>>]
            /\ hpc' = "return"
            /\ i' = i
       ELSE /\ i' = i + 1
            /\ UNCHANGED <<hpc, src>>
    /\ UNCHANGED <<cfg, op, hout, url, selfUrl>>
    /\ WaiterIdle

\* `return src`: src is unbound when the loop ended without a break
FnsReturn ==
    /\ op = "first_network_source" /\ hpc = "return"
    /\ hout' = IF src.bound THEN "return" ELSE "UnboundLocalError"
    /\ hpc' = "done"
    /\ UNCHANGED <<cfg, op, i, src, url, selfUrl>>
    /\ WaiterIdle

\* no wait call is running
WaiterOff ==
    /\ fn = "none"
    /\ state = ""
    /\ t0 = 0
    /\ timeout = 0
    /\ statusSeq = <<>>
    /\ result = UNBOUND
    /\ pc = "off"
    /\ outcome = "none"
    /\ diag = ""
    /\ idx = 0
    /\ idx0 = 0
    /\ sleeps = 0
    /\ elapsed = 0
    /\ lastKind = "none"
    /\ calls = 0
    /\ prev = NoCall
    /\ errAt = 0
    /\ peer = NoPeer

InitSource ==
    /\ WaiterOff
    /\ cfg \in SourceConfigs
    /\ op = "first_network_source"
    /\ hpc = "get"
    /\ hout = "none"
    /\ i = 0
    /\ src = NoSrc
    /\ url = <<>>
    /\ selfUrl = <<>>

NextSource ==
    \/ FnsGetSources
    \/ FnsLoop
    \/ FnsReturn

SpecSource == InitSource /\ [][NextSource]_vars

(* ======================================================================= *)
(* Client.__init__ (camayoc/api.py)                                        *)
(* ======================================================================= *)
\* a URL is the sequence of its pieces: "https://host" is <<"http", "s", "://", "host">>,
\* "ftp://httphost" is <<"ftp", "://", "http", "host">>; <<>> is '' or None
Hostnames ==
    {<<>>,
     <<"http", "://", "host">>,
     <<"http", "s", "://", "host">>,
     <<"http", "://", "host", "/">>,
     <<"ftp", "://", "host">>,
     <<"ftp", "://", "http", "host">>,
     <<"host">>,
     <<"http", "host">>,
     <<"http", "host", "/">>}

QCS_API_VERSION == "api/v1/"

HasScheme(u) == \E k \in 1 .. Len(u) : u[k] = "://"

LastSlash(u) ==
    LET at == {k \in 1 .. Len(u) : u[k] = "/"}
    IN IF at = {} THEN 0 ELSE CHOOSE k \in at : \A j \in at : j <= k

\* urllib.parse.urljoin(base, rel) for a relative path rel: the last segment
\* of the base path is replaced by rel
urljoin(base, rel) ==
    IF LastSlash(base) > 0 THEN Append(SubSeq(base, 1, LastSlash(base)), rel)
    ELSE IF HasScheme(base) THEN base \o <<"/", rel>>
    ELSE <<rel>>

\* `'http' in self.url`
ContainsHttp(u) == \E k \in 1 .. Len(u) : u[k] = "http"

ClientCfg(qcs, has, h) ==
    [file |-> TRUE, qcs |-> qcs, hasSources |-> FALSE, sources |-> <<>>,
     hasHostname |-> has, hostname |-> h]

ClientConfigs ==
    {ClientCfg(FALSE, FALSE, <<>>), ClientCfg(TRUE, FALSE, <<>>)}
    \cup {ClientCfg(TRUE, TRUE, h) : h \in Hostnames}

\* qcs_settings.get('hostname')
HostnameOf(c) == IF c.hasHostname THEN c.hostname ELSE <<>>

ClientFrame == UNCHANGED <<cfg, op, i, src, url>>

\* self.url = urljoin(url, QCS_API_VERSION) if url else None
ClientSetUrl ==
    /\ op = "Client" /\ hpc = "set_url"
    /\ selfUrl' = IF url # <<>> THEN urljoin(url, QCS_API_VERSION) ELSE <<>>
    /\ hpc' = "from_config"
    /\ hout' = hout
    /\ ClientFrame /\ WaiterIdle

\* if qcs_settings and not url: the hostname of the config file
ClientFromConfig ==
    /\ op = "Client" /\ hpc = "from_config"
    /\ IF cfg.qcs /\ url = <<>>
       THEN IF HostnameOf(cfg) = <<>>
            THEN /\ hout' = "QCSBaseUrlNotFound"
                 /\ hpc' = "done"
                 /\ selfUrl' = selfUrl
            ELSE /\ selfUrl' = urljoin(HostnameOf(cfg), QCS_API_VERSION)
                 /\ hpc' = "check"
                 /\ hout' = hout
       ELSE /\ hpc' = "check"
            /\ UNCHANGED <<selfUrl, hout>>
    /\ ClientFrame /\ WaiterIdle

\* if not self.url: raise; if 'http' not in self.url: raise
ClientCheck ==
    /\ op = "Client" /\ hpc = "check"
    /\ IF selfUrl = <<>> \/ ~ContainsHttp(selfUrl)
       THEN /\ hout' = "QCSBaseUrlNotFound"
            /\ hpc' = "done"
       ELSE /\ hpc' = "handler"
            /\ hout' = hout
    /\ selfUrl' = selfUrl
    /\ ClientFrame /\ WaiterIdle

\* self.response_handler = ...: the client is constructed
ClientSetHandler ==
    /\ op = "Client" /\ hpc = "handler"
    /\ hout' = "constructed"
    /\ hpc' = "done"
    /\ selfUrl' = selfUrl
    /\ ClientFrame /\ WaiterIdle

InitClient ==
    /\ WaiterOff
    /\ cfg \in ClientConfigs
    /\ url \in Hostnames
    /\ op = "Client"
    /\ hpc = "set_url"
    /\ hout = "none"
    /\ i = 0
    /\ src = NoSrc
    /\ selfUrl = <<>>

NextClient ==
    \/ ClientSetUrl
    \/ ClientFromConfig
    \/ ClientCheck
    \/ ClientSetHandler

SpecClient == InitClient /\ [][NextClient]_vars

(* ======================================================================= *)
(* Properties                                                              *)
(* ======================================================================= *)
Wus == fn = "wait_until_state"
Wfs == fn = "wait_for_scan"
Done == pc = "done"

\* reads of the status source made by the running call
polls == idx - idx0

\* the status the k-th read of the running call returns
StatusAt(k) ==
    statusSeq[IF idx0 + k <= Len(statusSeq) THEN idx0 + k ELSE Len(statusSeq)]

\* ordinal of the first read of the running call that returns v; 0 when none does
FirstK(v) ==
    LET hits == {k \in 1 .. Len(statusSeq) : StatusAt(k) = v}
    IN IF hits = {} THEN 0 ELSE CHOOSE k \in hits : \A j \in hits : k <= j

\* from the k-th read of the running call on, the job is and stays in status v
StaysFrom(k, v) == \A j \in k .. (IF k > Len(statusSeq) THEN k ELSE Len(statusSeq)) : StatusAt(j) = v

CeilDiv(a, b) == (a + b - 1) \div b

\* C1: a call with timeout <= 0 ends in WaitTimeError after at most one read
\* of the status source, and never returns normally.
C1_NonPositiveTimeoutTimesOut ==
    (Done /\ t0 <= 0) => (outcome = "WaitTimeError" /\ polls <= 1)

\* C2: in wait_until_state, when the read after a sleep returns 'failed',
\* state is not 'failed' and no read has returned state, the call ends in
\* FailedScanException.
C2_WusFailedRaisesFailedScan ==
    (Wus /\ Done /\ state # "failed" /\ lastKind = "failchk" /\ result = "failed"
        /\ \A k \in 1 .. polls : StatusAt(k) # state)
    => outcome = "FailedScanException"

\* C3: wait_for_scan with timeout > 0 and status other than 'failed': when
\* the n-th status is the first 'failed', no earlier one is the requested
\* status and n is within the budget, the call raises FailedScanException on
\* the n-th poll, after n - 1 sleeps, and nothing follows that poll.
C3_WfsFailedRaisesOnThatPoll ==
    LET n == FirstK("failed")
        r == FirstK(state)
    IN (Wfs /\ t0 > 0 /\ state # "failed" /\ n > 0 /\ (r = 0 \/ n < r)
            /\ PollInterval * (n - 1) < t0)
       => /\ polls <= n
          /\ sleeps <= n - 1
          /\ outcome \notin {"WaitTimeError", "return"}
          /\ Done => /\ outcome = "FailedScanException"
                     /\ polls = n
                     /\ sleeps = n - 1
                     /\ diag = "failed"

C3_Witness ==
    /\ Wfs /\ Done /\ calls = 1
    /\ state = "completed"
    /\ statusSeq = <<"running", "failed">>
    /\ outcome = "FailedScanException"
    /\ polls = 2 /\ sleeps = 1
    /\ timeout > 0

NoEarlierFailed(n) ==
    state = "failed" \/ FirstK("failed") = 0 \/ FirstK("failed") > n

\* C4 as stated: when the n-th read is the first to return the target, no
\* 'failed' comes earlier and n * 5 is within the budget, the call returns
\* after exactly n reads and exactly n sleeps.
C4_ReturnsAfterNPollsNSleeps ==
    LET n == FirstK(state)
    IN (Done /\ t0 > 0 /\ n > 0 /\ NoEarlierFailed(n) /\ PollInterval * n <= t0)
       => (outcome = "return" /\ polls = n /\ sleeps = n /\ elapsed = PollInterval * n)

\* C4 amended: wait_for_scan returns after exactly n polls and n - 1 sleeps
\* when the n-th status is the first equal to the target, no 'failed' comes
\* earlier and 5 * (n - 1) is below the timeout; wait_until_state reads the
\* status up to three times a cycle and returns, after k sleeps, on the second
\* read of a loop condition, having made between k + 2 and 3k + 2 reads.
C4_ReturnsAfterNPolls ==
    LET n == FirstK(state)
    IN /\ (Wfs /\ Done /\ t0 > 0 /\ n > 0 /\ NoEarlierFailed(n)
              /\ PollInterval * (n - 1) < t0)
          => /\ outcome = "return"
             /\ polls = n
             /\ sleeps = n - 1
             /\ elapsed = PollInterval * (n - 1)
       /\ (Wus /\ Done /\ t0 > 0 /\ outcome = "return")
          => /\ lastKind = "cond2"
             /\ result = state
             /\ elapsed = PollInterval * sleeps
             /\ polls >= sleeps + 2
             /\ polls <= 3 * sleeps + 2

C4_Witness ==
    /\ Wfs /\ Done /\ calls = 1
    /\ state = "completed"
    /\ statusSeq = <<"pending", "pending", "running", "completed">>
    /\ outcome = "return"
    /\ polls = 4 /\ sleeps = 3 /\ elapsed = 15

\* C5: wait_for_scan with a timeout t > 0 that is a multiple of 5: when none
\* of the first t/5 statuses is the requested one or 'failed', the call raises
\* WaitTimeError after exactly t/5 polls and t/5 sleeps and the message
\* carries the status of the last poll.
C5_WfsTimesOutAfterBudget ==
    LET n == t0 \div PollInterval
    IN (Wfs /\ Done /\ t0 > 0 /\ t0 % PollInterval = 0
            /\ \A k \in 1 .. n : StatusAt(k) \notin {state, "failed"})
       => /\ outcome = "WaitTimeError"
          /\ polls = n
          /\ sleeps = n
          /\ elapsed = t0
          /\ diag = StatusAt(n)

C5_Witness ==
    /\ Wfs /\ Done /\ calls = 1
    /\ state = "completed" /\ t0 = 10
    /\ statusSeq = <<"running", "running", "running">>
    /\ outcome = "WaitTimeError"
    /\ polls = 2 /\ sleeps = 2 /\ elapsed = 10
    /\ diag = "running"

C8_ReturnImpliesReached ==
    (Done /\ outcome = "return" /\ t0 > 0)
    => (result = state /\ lastKind \in {"loop", "cond2"})

C8_Witness ==
    /\ Done /\ outcome = "return" /\ t0 > 0
    /\ result = state
    /\ sleeps > 0
    /\ Wus

\* C9 as stated: the remaining budget is not negative when WaitTimeError is
\* raised.
C9_BudgetNotNegativeAtTimeout ==
    (Done /\ outcome = "WaitTimeError") => timeout >= 0

\* C9 amended: when WaitTimeError is raised the remaining budget is at most 0
\* and above -5; it is exactly 0 when the timeout is a multiple of 5 and
\* negative otherwise.
C9_BudgetAtTimeout ==
    (Done /\ outcome = "WaitTimeError")
    => /\ timeout <= 0
       /\ timeout > -PollInterval
       /\ (timeout = 0) = (t0 % PollInterval = 0)
       /\ t0 > 0

C9_Witness ==
    /\ Done /\ outcome = "WaitTimeError"
    /\ t0 = 7 /\ timeout = -3

\* C10: with timeout > 0 the time slept is 5 per sleep, the budget is the
\* timeout less 5 per sleep, there are at most ceil(t/5) sleeps and the time
\* slept never exceeds ceil(t/5) * 5.
C10_SleepsBounded ==
    (t0 > 0)
    => /\ elapsed = PollInterval * sleeps
       /\ timeout = t0 - PollInterval * sleeps
       /\ sleeps <= CeilDiv(t0, PollInterval)
       /\ elapsed <= CeilDiv(t0, PollInterval) * PollInterval

C10_Witness ==
    /\ t0 = 7 /\ sleeps = 2 /\ elapsed = 10 /\ timeout = -3
    /\ Done /\ outcome = "WaitTimeError"
    /\ Wfs

\* C11: when the status source raises on a read, the call ends on that read
\* with the source's error, not with WaitTimeError or FailedScanException, and
\* no read, sleep or other step follows.
C11_SourceErrorPropagates ==
    /\ []((errAt > 0 /\ idx >= errAt)
            => (Done /\ outcome = "SourceError" /\ idx = errAt /\ lastKind = "raised"))
    /\ [][outcome = "SourceError" => UNCHANGED vars]_vars

C11_Witness ==
    /\ Done /\ outcome = "SourceError"
    /\ idx = errAt /\ errAt > 1
    /\ sleeps > 0
    /\ timeout > 0

\* the sources of the config file of type 'network', by position
NetworkAt == IF GetSourcesRaises THEN {}
             ELSE {k \in 1 .. Len(cfg.sources) : cfg.sources[k] = "network"}

\* C12: first_network_source always returns a one-element list and never
\* ends in an error: the first source of type 'network' when the config has
\* one, the default localhost source otherwise.
C12_AlwaysReturnsOneSource ==
    (op = "first_network_source" /\ hpc = "done")
    => /\ hout = "return"
       /\ src.bound
       /\ Len(src.val) = 1
       /\ IF NetworkAt = {}
          THEN src.val[1] = DefaultSource
          ELSE src.val[1] = ConfigSource(CHOOSE k \in NetworkAt : \A j \in NetworkAt : k <= j)

\* the base URL the client is given: the url argument, else qcs.hostname
BaseUrl == IF url # <<>> THEN url ELSE IF cfg.qcs THEN HostnameOf(cfg) ELSE <<>>

\* the hostname starts with 'http://' or 'https://'
StartsWithHttp(h) ==
    \/ Len(h) >= 2 /\ h[1] = "http" /\ h[2] = "://"
    \/ Len(h) >= 3 /\ h[1] = "http" /\ h[2] = "s" /\ h[3] = "://"

\* C13: constructing Client raises QCSBaseUrlNotFound unless a base URL is
\* available and starts with 'http://' or 'https://'; with any other hostname
\* the construction fails.
C13_ClientNeedsHttpHostname ==
    (op = "Client" /\ hpc = "done")
    => IF BaseUrl # <<>> /\ StartsWithHttp(BaseUrl)
       THEN hout = "constructed"
       ELSE hout = "QCSBaseUrlNotFound"

\* C14: in wait_until_state, a cycle whose read after the sleep returns
\* 'failed', with state other than 'failed', ends in FailedScanException, also
\* when the decrement of that cycle brought the budget to zero or below; it
\* never ends in WaitTimeError.
C14_FailedBeatsTimeout ==
    (Wus /\ Done /\ state # "failed" /\ sleeps > 0
        /\ lastKind \in {"failchk", "message"} /\ result = "failed")
    => (outcome = "FailedScanException" /\ outcome # "WaitTimeError")

\* C15 as stated: when WaitTimeError is raised, the status in the message is
\* the one returned by the last read made before the final sleep, and no read
\* is made between the budget reaching zero or below and the raise.
C15_MessageHasLastPollBeforeSleep ==
    (Done /\ outcome = "WaitTimeError")
    => /\ lastKind # "message"
       /\ diag = StatusAt(IF lastKind = "message" THEN polls - 1 ELSE polls)

\* C15 amended: wait_for_scan raises WaitTimeError with the status of the
\* last poll made before the final sleep, one poll per sleep and none after
\* the budget is used up; wait_until_state reads scan.status() once more while
\* it builds the message, after the budget reached zero or below, and the
\* message carries the status of that fresh read.
C15_MessageStatus ==
    (Done /\ outcome = "WaitTimeError")
    => /\ sleeps = CeilDiv(t0, PollInterval)
       /\ diag = StatusAt(polls)
       /\ diag = result
       /\ Wfs => (lastKind = "loop" /\ polls = sleeps)
       /\ Wus => (lastKind = "message" /\ polls >= sleeps + 1)

C15_Witness ==
    /\ Wus /\ Done /\ outcome = "WaitTimeError"
    /\ polls >= 2
    /\ diag = "completed"
    /\ StatusAt(polls - 1) = "running"
    /\ state = "completed"

\* C16: a wait call with timeout > 0 against a status source that does not
\* raise ends in one of three outcomes and no other: a normal return,
\* FailedScanException or WaitTimeError.
C16_ThreeOutcomes ==
    (Done /\ t0 > 0 /\ errAt = 0)
    => outcome \in {"return", "FailedScanException", "WaitTimeError"}

\* a wait call run alone, from its first statement to its end
RECURSIVE RunAlone(_)
RunAlone(w) == IF w.pc = "done" THEN w ELSE RunAlone(StepOf(w))

\* C17: two wait calls for distinct jobs, interleaved in any order: each
\* call's outcome, number of polls, number of sleeps and remaining budget are
\* those of the same call run alone against the status sequence of its job.
C17_ConcurrentCallsIndependent ==
    /\ Done => LET alone == RunAlone(Start(fn, state, t0, statusSeq))
               IN /\ outcome = alone.outcome
                  /\ polls = alone.idx
                  /\ sleeps = alone.sleeps
                  /\ timeout = alone.timeout
                  /\ diag = alone.diag
    /\ peer.pc = "done" => peer = RunAlone(Start(peer.fn, peer.state, peer.t0, peer.seq))
    /\ timeout = t0 - PollInterval * sleeps
    /\ peer.pc # "off" => peer.timeout = peer.t0 - PollInterval * peer.sleeps

C17_Witness ==
    /\ Done /\ peer.pc = "done"
    /\ sleeps = 2 /\ peer.sleeps = 1
    /\ outcome = "WaitTimeError" /\ peer.outcome = "return"
    /\ timeout # peer.timeout
    /\ statusSeq # peer.seq
====
